---- MODULE Spec2Model ----
(***************************************************************************)
(* A model of j_scraper.py: two Selenium scrapers (Google, Amazon), the    *)
(* JobScraperManager pipeline run_scraper (scrape, filter, report), the    *)
(* mail step send_email and the daily scheduler schedule_scraper.          *)
(*                                                                         *)
(* Python str values are sequences of one-character strings, so that       *)
(* str.lower(), str.strip() and the substring test `in` are computed.      *)
(* Python dicts are functions whose DOMAIN is the dict's key set.          *)
(***************************************************************************)
EXTENDS Integers, Sequences, FiniteSets, TLC

VARIABLES
    entry,          \* how the program was started (line 213 or line 214)
    pc,             \* position of the (single) thread of control
    exc,            \* the exception that escaped to the top level, or "none"
    site,           \* the scraper whose scrape_jobs frame is active, or "none"
    driver,         \* per scraper: "none" (not constructed), "open", "quit"
    opened,         \* per scraper: number of browser sessions opened
    quits,          \* per scraper: number of driver.quit() calls
    job_cards,      \* the frame's card collection (find_elements result)
    idx,            \* number of cards of job_cards already processed
    jobs,           \* the frame's result list
    failed,         \* per scraper: the call whose exception failed the site, or "none"
    scraped,        \* per scraper: TRUE once its scrape_jobs returned
    google_jobs,    \* run_scraper local
    amazon_jobs,    \* run_scraper local
    filtered_jobs,  \* run_scraper local
    filename,       \* run_scraper local: << >> while unassigned, else << name >>
    files,          \* output files on disk
    emails,         \* number of notifications delivered
    console,        \* sequence of printed lines
    registered,     \* schedule's job list: TRUE when run_scraper is registered
    now,            \* wall clock, in hours since midnight of day 0
    next_run,       \* the registered job's next_run, in hours
    runs,           \* number of run_scraper invocations started
    f_jobs,         \* filter_jobs call: argument jobs
    f_keywords,     \* filter_jobs call: argument keywords
    f_locations,    \* filter_jobs call: argument location_keywords
    f_result,       \* filter_jobs call: its outcome, or "pending"
    m_pc,           \* send_email: position
    m_file,         \* send_email: argument filename
    m_server,       \* send_email: local `server`: "unbound", "connected", "closed"
    m_attempts,     \* send_email: number of SMTP submissions attempted
    m_exc           \* send_email: the exception in flight / escaped, or "none"

vars == << entry, pc, exc, site, driver, opened, quits, job_cards, idx, jobs,
           failed, scraped, google_jobs, amazon_jobs, filtered_jobs, filename,
           files, emails, console, registered, now, next_run, runs,
           f_jobs, f_keywords, f_locations, f_result,
           m_pc, m_file, m_server, m_attempts, m_exc >>

pipelineVars == << entry, pc, exc, site, driver, opened, quits, job_cards, idx,
                   jobs, failed, scraped, google_jobs, amazon_jobs,
                   filtered_jobs, filename, files, emails, console,
                   registered, now, next_run, runs >>
filterVars == << f_jobs, f_keywords, f_locations, f_result >>
mailVars == << m_pc, m_file, m_server, m_attempts, m_exc >>

(***************************************************************************)
(* Bounds of the model.                                                    *)
(***************************************************************************)
MaxCards == 2       \* longest card collection a page returns
MaxJobs == 3        \* longest listing sequence handed to filter_jobs
MaxHour == 11       \* the scheduler's clock stops advancing at this hour

(***************************************************************************)
(* str                                                                     *)
(***************************************************************************)
UpperChars == << "A","B","C","D","E","F","G","H","I","J","K","L","M",
                 "N","O","P","Q","R","S","T","U","V","W","X","Y","Z" >>
LowerChars == << "a","b","c","d","e","f","g","h","i","j","k","l","m",
                 "n","o","p","q","r","s","t","u","v","w","x","y","z" >>

lower_char(c) ==
    IF \E i \in 1..Len(UpperChars) : UpperChars[i] = c
    THEN LowerChars[CHOOSE i \in 1..Len(UpperChars) : UpperChars[i] = c]
    ELSE c

\* str.lower()
lower(s) == [i \in 1..Len(s) |-> lower_char(s[i])]

\* `needle in hay` on str
contains(needle, hay) ==
    \E i \in 0..(Len(hay) - Len(needle)) :
        SubSeq(hay, i + 1, i + Len(needle)) = needle

IsSpace(c) == c \in {" ", "\t", "\n"}

\* str.strip()
strip(s) ==
    LET keep == {i \in 1..Len(s) : ~IsSpace(s[i])}
    IN  IF keep = {} THEN << >>
        ELSE SubSeq(s, CHOOSE i \in keep : \A j \in keep : i <= j,
                       CHOOSE i \in keep : \A j \in keep : j <= i)


\* str.replace(old, "") : every non-overlapping occurrence of old, left to
\* right, is removed
RECURSIVE remove_all(_, _)
remove_all(s, old) ==
    IF Len(s) < Len(old) \/ Len(old) = 0 THEN s
    ELSE IF SubSeq(s, 1, Len(old)) = old
         THEN remove_all(SubSeq(s, Len(old) + 1, Len(s)), old)
         ELSE << s[1] >> \o remove_all(Tail(s), old)

(***************************************************************************)
(* datetime.strptime(text, "%B %d, %Y")                                    *)
(***************************************************************************)
DigitChars == << "0","1","2","3","4","5","6","7","8","9" >>
IsDigit(c) == \E i \in 1..Len(DigitChars) : DigitChars[i] = c
digit(c) == (CHOOSE i \in 1..Len(DigitChars) : DigitChars[i] = c) - 1

MonthNames ==
    << << "J","a","n","u","a","r","y" >>,
       << "F","e","b","r","u","a","r","y" >>,
       << "M","a","r","c","h" >>,
       << "A","p","r","i","l" >>,
       << "M","a","y" >>,
       << "J","u","n","e" >>,
       << "J","u","l","y" >>,
       << "A","u","g","u","s","t" >>,
       << "S","e","p","t","e","m","b","e","r" >>,
       << "O","c","t","o","b","e","r" >>,
       << "N","o","v","e","m","b","e","r" >>,
       << "D","e","c","e","m","b","e","r" >> >>

IsLeap(y) == (y % 4 = 0 /\ y % 100 # 0) \/ y % 400 = 0
DaysInMonth(y, m) ==
    IF m = 2 THEN (IF IsLeap(y) THEN 29 ELSE 28)
    ELSE IF m \in {4, 6, 9, 11} THEN 30 ELSE 31

\* number of leading whitespace characters / leading digits of s
RECURSIVE span_space(_)
span_space(s) == IF s # << >> /\ IsSpace(s[1]) THEN 1 + span_space(Tail(s)) ELSE 0
RECURSIVE span_digit(_)
span_digit(s) == IF s # << >> /\ IsDigit(s[1]) THEN 1 + span_digit(Tail(s)) ELSE 0

drop(s, n) == SubSeq(s, n + 1, Len(s))

ValueError == [raised |-> TRUE]
\* The format's regular expression: the full month name (any case), one or
\* more whitespace, a day of one or two digits in 1..31, a comma, one or more
\* whitespace, a year of exactly four digits, end of text; then the date must
\* exist in the calendar.
strptime(text) ==
    LET months == {m \in 1..Len(MonthNames) :
                      /\ Len(text) >= Len(MonthNames[m])
                      /\ lower(SubSeq(text, 1, Len(MonthNames[m])))
                            = lower(MonthNames[m])}
    IN  IF months = {} THEN ValueError
        ELSE
        LET month == CHOOSE m \in months : TRUE
            r1 == drop(text, Len(MonthNames[month]))
            sp1 == span_space(r1)
            r2 == drop(r1, sp1)
            nd == span_digit(r2)
            day == IF nd = 1 THEN digit(r2[1])
                   ELSE IF nd = 2 THEN 10 * digit(r2[1]) + digit(r2[2])
                   ELSE 0
            r3 == drop(r2, nd)
            r4 == IF r3 # << >> THEN Tail(r3) ELSE << >>
            sp2 == span_space(r4)
            r5 == drop(r4, sp2)
            year == IF Len(r5) = 4 /\ span_digit(r5) = 4
                    THEN 1000 * digit(r5[1]) + 100 * digit(r5[2])
                         + 10 * digit(r5[3]) + digit(r5[4])
                    ELSE 0
        IN  IF /\ sp1 >= 1
               /\ nd \in {1, 2} /\ day \in 1..31
               /\ r3 # << >> /\ r3[1] = ","
               /\ sp2 >= 1
               /\ Len(r5) = 4 /\ span_digit(r5) = 4 /\ year >= 1
               /\ day <= DaysInMonth(year, month)
            THEN [raised |-> FALSE,
                  value |-> [year |-> year, month |-> month, day |-> day]]
            ELSE ValueError


(***************************************************************************)
(* The rendered pages.  A card is a function from the sub-selectors that   *)
(* match inside it to the matched element; a sub-selector outside its      *)
(* DOMAIN makes find_element raise NoSuchElementException.  An element has *)
(* a text and an href attribute ("None" when the attribute is absent).     *)
(***************************************************************************)
Sites == {"google", "amazon"}
Other(s) == IF s = "google" THEN "amazon" ELSE "google"

None == "None"
El(text, href) == [text |-> text, href |-> href]

txt_SoftwareEngineer ==
    << " "," ","S","o","f","t","w","a","r","e"," ","E","n","g","i","n","e","e","r"," " >>
txt_GraphicDesigner ==
    << "G","r","a","p","h","i","c"," ","D","e","s","i","g","n","e","r" >>
txt_MountainView ==
    << "M","o","u","n","t","a","i","n"," ","V","i","e","w",","," ","C","A",","," ","U","S","A" >>
txt_Berlin == << "B","e","r","l","i","n",","," ","G","e","r","m","a","n","y" >>
txt_PostedJan18 ==
    << "P","o","s","t","e","d"," ","J","a","n","u","a","r","y"," ","1","8",","," ","2","0","2","5" >>
txt_Posted3DaysAgo ==
    << "P","o","s","t","e","d"," ","3"," ","d","a","y","s"," ","a","g","o" >>
txt_Feb30 ==
    << "F","e","b","r","u","a","r","y"," ","3","0",","," ","2","0","2","5" >>

GoogleCards ==
    { \* a complete card that matches the filter
      ("h3" :> El(txt_SoftwareEngineer, None))
        @@ ("span.r0wTof" :> El(txt_MountainView, None))
        @@ ("a" :> El(<< >>, "https://careers.google.com/jobs/results/1")),
      \* a complete card in another country
      ("h3" :> El(txt_SoftwareEngineer, None))
        @@ ("span.r0wTof" :> El(txt_Berlin, None))
        @@ ("a" :> El(<< >>, "https://careers.google.com/jobs/results/2")),
      \* an anchor without href
      ("h3" :> El(txt_SoftwareEngineer, None))
        @@ ("span.r0wTof" :> El(txt_MountainView, None))
        @@ ("a" :> El(<< >>, None)),
      \* no title element
      ("span.r0wTof" :> El(txt_MountainView, None))
        @@ ("a" :> El(<< >>, "https://careers.google.com/jobs/results/3")),
      \* no location element
      ("h3" :> El(txt_SoftwareEngineer, None))
        @@ ("a" :> El(<< >>, "https://careers.google.com/jobs/results/4")),
      \* no anchor
      ("h3" :> El(txt_SoftwareEngineer, None))
        @@ ("span.r0wTof" :> El(txt_MountainView, None)) }

AmazonCard(title, date) ==
    ("h3" :> El(title, None))
      @@ ("li" :> El(txt_MountainView, None))
      @@ ("a" :> El(<< >>, "https://www.amazon.jobs/en/jobs/1"))
      @@ ("h2.posting-date" :> El(date, None))

AmazonCards ==
    { AmazonCard(txt_SoftwareEngineer, txt_PostedJan18),
      AmazonCard(txt_GraphicDesigner, txt_PostedJan18),
      \* posting date not in the format "Month DD, YYYY"
      AmazonCard(txt_SoftwareEngineer, txt_Posted3DaysAgo),
      \* a date that is not in the calendar
      AmazonCard(txt_SoftwareEngineer, txt_Feb30),
      \* no posting-date element
      ("h3" :> El(txt_SoftwareEngineer, None))
        @@ ("li" :> El(txt_MountainView, None))
        @@ ("a" :> El(<< >>, "https://www.amazon.jobs/en/jobs/2")),
      \* no title element
      ("li" :> El(txt_MountainView, None))
        @@ ("a" :> El(<< >>, "https://www.amazon.jobs/en/jobs/3"))
        @@ ("h2.posting-date" :> El(txt_PostedJan18, None)),
      \* no location element
      ("h3" :> El(txt_SoftwareEngineer, None))
        @@ ("a" :> El(<< >>, "https://www.amazon.jobs/en/jobs/4"))
        @@ ("h2.posting-date" :> El(txt_PostedJan18, None)),
      \* no anchor
      ("h3" :> El(txt_SoftwareEngineer, None))
        @@ ("li" :> El(txt_MountainView, None))
        @@ ("h2.posting-date" :> El(txt_PostedJan18, None)) }

Cards(s) == IF s = "google" THEN GoogleCards ELSE AmazonCards

\* the sequences over S of length at most n
SeqsUpTo(S, n) == UNION {[1..k -> S] : k \in 0..n}

(***************************************************************************)
(* The body of the per-card try block.  raised = TRUE: an exception left   *)
(* the block before jobs.append; otherwise job is the dict appended.       *)
(***************************************************************************)
CardError == [raised |-> TRUE]
Appended(job) == [raised |-> FALSE, job |-> job]
Posted == << "P","o","s","t","e","d" >>

\* as extract_google, but the dict is appended with the fields found so far
extract_google_partial(card) ==
    IF "h3" \notin DOMAIN card THEN CardError
    ELSE IF "span.r0wTof" \notin DOMAIN card \/ "a" \notin DOMAIN card
    THEN Appended([Title |-> strip(card["h3"].text)])
    ELSE Appended([Title |-> strip(card["h3"].text),
                   Location |-> strip(card["span.r0wTof"].text),
                   Link |-> card["a"].href])

extract_google(card) ==
    IF "h3" \notin DOMAIN card THEN CardError
    ELSE IF "span.r0wTof" \notin DOMAIN card THEN CardError
    ELSE IF "a" \notin DOMAIN card THEN CardError
    ELSE Appended([Title |-> strip(card["h3"].text),
                   Location |-> strip(card["span.r0wTof"].text),
                   Link |-> card["a"].href])

extract_amazon(card) ==
    IF "h3" \notin DOMAIN card THEN CardError
    ELSE IF "li" \notin DOMAIN card THEN CardError
    ELSE IF "a" \notin DOMAIN card THEN CardError
    ELSE IF "h2.posting-date" \notin DOMAIN card THEN CardError
    ELSE LET date_posted == card["h2.posting-date"].text
             posted_date_str == strip(remove_all(date_posted, Posted))
             posted_date == strptime(posted_date_str)
         IN  IF posted_date.raised THEN CardError
             ELSE Appended(("Title" :> strip(card["h3"].text))
                           @@ ("Location" :> strip(card["li"].text))
                           @@ ("Link" :> card["a"].href)
                           @@ ("Date Posted" :> posted_date.value))

extract(s, card) ==
    IF s = "google" THEN extract_google(card) ELSE extract_amazon(card)

(***************************************************************************)
(* JobScraperManager.filter_jobs                                           *)
(***************************************************************************)
\* as any_in, without the two lower() calls
any_in_case_sensitive(keywords, text) ==
    \E k \in 1..Len(keywords) : contains(keywords[k], text)

\* any(keyword.lower() in text.lower() for keyword in keywords)
any_in(keywords, text) ==
    \E k \in 1..Len(keywords) : contains(lower(keywords[k]), lower(text))

\* job["Title"] / job["Location"] raise KeyError on a dict without the key;
\* the generators evaluate them only when the keyword list is not empty, and
\* `and` evaluates its right side only when the left side is true.
title_raises(job, keywords) == keywords # << >> /\ "Title" \notin DOMAIN job
title_hit(job, keywords) == any_in(keywords, job["Title"])
location_raises(job, location_keywords) ==
    location_keywords # << >> /\ "Location" \notin DOMAIN job
location_hit(job, location_keywords) ==
    location_keywords # << >> /\ any_in(location_keywords, job["Location"])

Returned(v) == [raised |-> FALSE, value |-> v]
KeyError == [raised |-> TRUE, value |-> "KeyError"]

\* as filter_loop, but a job equal to one already kept is not appended again
RECURSIVE filter_loop_dedup(_, _, _, _, _)
filter_loop_dedup(jobs_, keywords, location_keywords, i, filtered) ==
    IF i > Len(jobs_) THEN Returned(filtered)
    ELSE LET job == jobs_[i]
             hit == /\ keywords # << >> /\ title_hit(job, keywords)
                    /\ location_hit(job, location_keywords)
                    /\ \A k \in 1..Len(filtered) : filtered[k] # job
         IN  filter_loop_dedup(jobs_, keywords, location_keywords, i + 1,
                               IF hit THEN Append(filtered, job) ELSE filtered)

RECURSIVE filter_loop(_, _, _, _, _)
filter_loop(jobs_, keywords, location_keywords, i, filtered) ==
    IF i > Len(jobs_) THEN Returned(filtered)
    ELSE LET job == jobs_[i]
         IN  IF title_raises(job, keywords) THEN KeyError
             ELSE IF ~(keywords # << >> /\ title_hit(job, keywords))
             THEN filter_loop(jobs_, keywords, location_keywords, i + 1, filtered)
             ELSE IF location_raises(job, location_keywords) THEN KeyError
             ELSE IF location_hit(job, location_keywords)
             THEN filter_loop(jobs_, keywords, location_keywords, i + 1,
                              Append(filtered, job))
             ELSE filter_loop(jobs_, keywords, location_keywords, i + 1, filtered)

filter_jobs(jobs_, keywords, location_keywords) ==
    filter_loop(jobs_, keywords, location_keywords, 1, << >>)


(***************************************************************************)
(* JobScraperManager.save_to_csv                                           *)
(***************************************************************************)
HoursPerDay == 24
TriggerHour == 9

pad2(n) == << DigitChars[((n \div 10) % 10) + 1], DigitChars[(n % 10) + 1] >>
pad4(n) == pad2(n \div 100) \o pad2(n % 100)

\* datetime.strftime("%d_%m_%Y")
strftime(d) == pad2(d.day) \o << "_" >> \o pad2(d.month) \o << "_" >> \o pad4(d.year)

prefix_jobs == << "j","o","b","s" >>
\* f"{filename_prefix}_{current_date}.csv"
csv_name(filename_prefix, d) ==
    filename_prefix \o << "_" >> \o strftime(d) \o << ".","c","s","v" >>

\* datetime.now() as a date: hour 0 of the clock is midnight of 20 January
\* 2025; the clock of the model stays within that month
today(hour) == [day |-> 20 + (hour \div HoursPerDay), month |-> 1, year |-> 2025]

\* df.to_csv(filename): the file of that name is created or replaced
to_csv(disk, name, rows) ==
    {f \in disk : f.name # name} \cup {[name |-> name, rows |-> rows]}

(***************************************************************************)
(* The program                                                             *)
(***************************************************************************)
RunOnce == "scraper_manager.run_scraper()"
ScheduleOnInstance == "scraper_manager.schedule_scraper()"
ScheduleOnClass == "JobScraperManager.schedule_scraper(scraper_manager)"
Entries == {RunOnce, ScheduleOnInstance, ScheduleOnClass}

KEYWORDS ==
    << << "S","o","f","t","w","a","r","e" >>,
       << "E","n","g","i","n","e","e","r" >>,
       << "D","e","v","e","l","o","p","e","r" >>,
       << "I","n","t","e","r","n" >> >>
LOCATION_KEYWORDS ==
    << << "u","n","i","t","e","d"," ","s","t","a","t","e","s" >>,
       << "u","s","a" >>,
       << "u","s" >> >>

SiteName(s) == IF s = "google" THEN "Google" ELSE "Amazon"
CardErrorLine(s) == "Error scraping " \o SiteName(s) \o " job card"
SiteErrorLine(s) == IF s = "google" THEN "Error scraping Google Careers"
                                    ELSE "Error scraping Amazon Jobs"

sessions == << driver, opened, quits >>
frame == << job_cards, idx, jobs >>
locals == << google_jobs, amazon_jobs, filtered_jobs, filename >>
sched == << registered, now, next_run >>
history == << failed, scraped >>
others == << filterVars, mailVars >>

PipelineIdle ==
    /\ exc = "none" /\ site = "none"
    /\ driver = [s \in Sites |-> "none"]
    /\ opened = [s \in Sites |-> 0]
    /\ quits = [s \in Sites |-> 0]
    /\ job_cards = << >> /\ idx = 0 /\ jobs = << >>
    /\ failed = [s \in Sites |-> "none"]
    /\ scraped = [s \in Sites |-> FALSE]
    /\ google_jobs = << >> /\ amazon_jobs = << >>
    /\ filtered_jobs = << >> /\ filename = << >>
    /\ emails = 0 /\ console = << >>
    /\ registered = FALSE /\ next_run = 0 /\ runs = 0
FilterIdle ==
    f_jobs = << >> /\ f_keywords = << >> /\ f_locations = << >> /\ f_result = << >>
MailIdle ==
    m_pc = "idle" /\ m_file = << >> /\ m_server = "unbound" /\ m_attempts = 0
    /\ m_exc = "none"

StartHours == {TriggerHour - 1, TriggerHour + 1}

Init ==
    /\ entry \in Entries
    /\ pc = "main"
    /\ now \in StartHours
    /\ files = {}
    /\ PipelineIdle /\ FilterIdle /\ MailIdle

\* an exception that nothing catches unwinds run_scraper, and in scheduler
\* mode run_pending and the polling loop with it
Propagate(e) == exc' = e /\ pc' = "raised"

\* line 213
MainRunOnce ==
    /\ pc = "main" /\ entry = RunOnce
    /\ pc' = "run_scraper"
    /\ UNCHANGED << others, entry, exc, site, sessions, frame, history, locals, files,
                    emails, console, sched, runs >>

\* line 214 as written: schedule_scraper is a staticmethod that declares the
\* parameter self, so the call without an argument raises TypeError
MainScheduleOnInstance ==
    /\ pc = "main" /\ entry = ScheduleOnInstance
    /\ Propagate("TypeError")
    /\ UNCHANGED << others, entry, site, sessions, frame, history, locals, files,
                    emails, console, sched, runs >>

\* schedule_scraper called with the manager as its argument
MainScheduleOnClass ==
    /\ pc = "main" /\ entry = ScheduleOnClass
    /\ pc' = "schedule"
    /\ UNCHANGED << others, entry, exc, site, sessions, frame, history, locals, files,
                    emails, console, sched, runs >>

\* lines 174-178: a fresh frame of run_scraper
RunScraperStart ==
    /\ pc = "run_scraper"
    /\ runs' = runs + 1
    /\ console' = Append(console, "Starting job scraping...")
    /\ google_jobs' = << >> /\ amazon_jobs' = << >>
    /\ filtered_jobs' = << >> /\ filename' = << >>
    /\ failed' = [s \in Sites |-> "none"]
    /\ scraped' = [s \in Sites |-> FALSE]
    /\ pc' = "ctor_google"
    /\ UNCHANGED << others, entry, exc, site, sessions, frame, files, emails, sched >>

CtorSite == [ctor_google |-> "google", ctor_amazon |-> "amazon"]

\* lines 181, 182 with 22-30: webdriver.Chrome(...) starts the browser
Construct ==
    /\ pc \in DOMAIN CtorSite
    /\ LET s == CtorSite[pc]
       IN  /\ driver' = [driver EXCEPT ![s] = "open"]
           /\ opened' = [opened EXCEPT ![s] = @ + 1]
           /\ IF s = "google"
              THEN pc' = "ctor_amazon" /\ site' = site
              ELSE pc' = "get" /\ site' = "google"      \* line 184
    /\ UNCHANGED << others, entry, exc, quits, frame, history, locals, files, emails,
                    console, sched, runs >>

\* the browser process cannot be launched
ConstructFails ==
    /\ pc \in DOMAIN CtorSite
    /\ Propagate("WebDriverException")
    /\ UNCHANGED << others, entry, site, sessions, frame, history, locals, files,
                    emails, console, sched, runs >>

\* lines 43 / 73: self.driver.get(url)
Get ==
    /\ pc = "get"
    /\ pc' = "implicitly_wait"
    /\ UNCHANGED << others, entry, exc, site, sessions, frame, history, locals, files,
                    emails, console, sched, runs >>

\* driver.get raises (network failure, timeout): the call is outside the try
GetFails ==
    /\ pc = "get"
    /\ failed' = [failed EXCEPT ![site] = "get"]
    /\ Propagate("WebDriverException")
    /\ UNCHANGED << others, entry, site, sessions, frame, scraped, locals, files,
                    emails, console, sched, runs >>

\* lines 44-46 / 74-76
ImplicitlyWait ==
    /\ pc = "implicitly_wait"
    /\ jobs' = << >>
    /\ pc' = "find_elements"
    /\ UNCHANGED << others, entry, exc, site, sessions, job_cards, idx, history,
                    locals, files, emails, console, sched, runs >>

ImplicitlyWaitFails ==
    /\ pc = "implicitly_wait"
    /\ failed' = [failed EXCEPT ![site] = "implicitly_wait"]
    /\ Propagate("WebDriverException")
    /\ UNCHANGED << others, entry, site, sessions, frame, scraped, locals, files,
                    emails, console, sched, runs >>

\* lines 48 / 79
FindElements ==
    /\ pc = "find_elements"
    /\ \E cards \in SeqsUpTo(Cards(site), MaxCards) : job_cards' = cards
    /\ idx' = 0
    /\ pc' = "card"
    /\ UNCHANGED << others, entry, exc, site, sessions, jobs, history, locals, files,
                    emails, console, sched, runs >>

\* lines 58-59 / 93-94: the lookup of the card collection raises
FindElementsFails ==
    /\ pc = "find_elements"
    /\ failed' = [failed EXCEPT ![site] = "find_elements"]
    /\ console' = Append(console, SiteErrorLine(site))
    /\ pc' = "finally"
    /\ UNCHANGED << others, entry, exc, site, sessions, frame, scraped, locals, files,
                    emails, sched, runs >>

\* as ScrapeCard, but the first failing card ends the loop
ScrapeCardAborting ==
    /\ pc = "card" /\ idx < Len(job_cards)
    /\ LET r == extract(site, job_cards[idx + 1])
       IN  IF r.raised
           THEN /\ console' = Append(console, CardErrorLine(site))
                /\ jobs' = jobs
                /\ idx' = Len(job_cards)
           ELSE /\ jobs' = Append(jobs, r.job)
                /\ console' = console
                /\ idx' = idx + 1
    /\ UNCHANGED << others, entry, pc, exc, site, sessions, job_cards, history,
                    locals, files, emails, sched, runs >>

\* lines 49-57 / 80-92: one iteration of the loop over job_cards
ScrapeCard ==
    /\ pc = "card" /\ idx < Len(job_cards)
    /\ LET r == extract(site, job_cards[idx + 1])
       IN  IF r.raised
           THEN /\ console' = Append(console, CardErrorLine(site))
                /\ jobs' = jobs
           ELSE /\ jobs' = Append(jobs, r.job)
                /\ console' = console
    /\ idx' = idx + 1
    /\ UNCHANGED << others, entry, pc, exc, site, sessions, job_cards, history, locals,
                    files, emails, sched, runs >>

LoopEnds ==
    /\ pc = "card" /\ idx = Len(job_cards)
    /\ pc' = "finally"
    /\ UNCHANGED << others, entry, exc, site, sessions, frame, history, locals, files,
                    emails, console, sched, runs >>

\* lines 60-61 / 95-96 with 32-33
QuitDriver ==
    /\ pc = "finally"
    /\ driver' = [driver EXCEPT ![site] = "quit"]
    /\ quits' = [quits EXCEPT ![site] = @ + 1]
    /\ pc' = "return"
    /\ UNCHANGED << others, entry, exc, site, opened, frame, history, locals, files,
                    emails, console, sched, runs >>

\* lines 63 and 184-185 / 98 and 185-190
Return ==
    /\ pc = "return"
    /\ scraped' = [scraped EXCEPT ![site] = TRUE]
    /\ IF site = "google"
       THEN /\ google_jobs' = jobs
            /\ site' = "amazon" /\ pc' = "get"
            /\ UNCHANGED amazon_jobs
       ELSE /\ amazon_jobs' = jobs
            /\ site' = "none" /\ pc' = "filter"
            /\ UNCHANGED google_jobs
    /\ job_cards' = << >> /\ idx' = 0 /\ jobs' = << >>
    /\ UNCHANGED << others, entry, exc, sessions, failed, filtered_jobs, filename,
                    files, emails, console, sched, runs >>

\* lines 188-191
Filter ==
    /\ pc = "filter"
    /\ LET all_jobs == google_jobs \o amazon_jobs
           r == filter_jobs(all_jobs, KEYWORDS, LOCATION_KEYWORDS)
       IN  IF r.raised
           THEN Propagate(r.value) /\ UNCHANGED filtered_jobs
           ELSE filtered_jobs' = r.value /\ pc' = "report" /\ UNCHANGED exc
    /\ UNCHANGED << others, entry, site, sessions, frame, history, google_jobs,
                    amazon_jobs, filename, files, emails, console, sched, runs >>

Returns == pc' = IF entry = RunOnce THEN "done" ELSE "job_done"

\* lines 193-196: the send_email call of line 196 is commented out
ReportSave ==
    /\ pc = "report" /\ filtered_jobs # << >>
    /\ LET name == csv_name(prefix_jobs, today(now))
       IN  /\ files' = to_csv(files, name, filtered_jobs)
           /\ filename' = << name >>
    /\ console' = Append(console, "<table>")
    /\ Returns
    /\ UNCHANGED << others, entry, exc, site, sessions, frame, history, google_jobs,
                    amazon_jobs, filtered_jobs, emails, sched, runs >>

\* df.to_csv raises (the disk cannot be written)
ReportSaveFails ==
    /\ pc = "report" /\ filtered_jobs # << >>
    /\ Propagate("OSError")
    /\ UNCHANGED << others, entry, site, sessions, frame, history, locals, files,
                    emails, console, sched, runs >>

\* as ReportNone, but the empty table is saved all the same
ReportNoneSaves ==
    /\ pc = "report" /\ filtered_jobs = << >>
    /\ LET name == csv_name(prefix_jobs, today(now))
       IN  /\ files' = to_csv(files, name, filtered_jobs)
           /\ filename' = << name >>
    /\ console' = Append(console, "No matching jobs found.")
    /\ Returns
    /\ UNCHANGED << others, entry, exc, site, sessions, frame, history,
                    google_jobs, amazon_jobs, filtered_jobs, emails, sched, runs >>

\* lines 197-198
ReportNone ==
    /\ pc = "report" /\ filtered_jobs = << >>
    /\ console' = Append(console, "No matching jobs found.")
    /\ Returns
    /\ UNCHANGED << others, entry, exc, site, sessions, frame, history, locals, files,
                    emails, sched, runs >>


(***************************************************************************)
(* JobScraperManager.schedule_scraper, with the schedule library's         *)
(* every().day.at("09:00").do(job) and run_pending()                       *)
(***************************************************************************)
day_of(hour) == hour \div HoursPerDay

\* Job.do: the first 09:00 that is still ahead
first_run(hour) ==
    IF hour % HoursPerDay < TriggerHour
    THEN day_of(hour) * HoursPerDay + TriggerHour
    ELSE (day_of(hour) + 1) * HoursPerDay + TriggerHour

\* Job.run: after the job function returned, 09:00 of the next day
following_run(hour) == (day_of(hour) + 1) * HoursPerDay + TriggerHour

\* lines 202-203
Schedule ==
    /\ pc = "schedule"
    /\ registered' = TRUE
    /\ next_run' = first_run(now)
    /\ console' = Append(console, "Job scraper scheduled to run daily at 09:00.")
    /\ pc' = "poll"
    /\ UNCHANGED << others, entry, exc, site, sessions, frame, history, locals,
                    files, emails, now, runs >>

\* lines 205-206: run_pending finds the job due and calls run_scraper
RunPendingDue ==
    /\ pc = "poll" /\ registered /\ now >= next_run
    /\ pc' = "run_scraper"
    /\ UNCHANGED << others, entry, exc, site, sessions, frame, history, locals,
                    files, emails, console, sched, runs >>

\* lines 205-206: nothing is due
RunPendingIdle ==
    /\ pc = "poll" /\ ~(registered /\ now >= next_run)
    /\ pc' = "sleep"
    /\ UNCHANGED << others, entry, exc, site, sessions, frame, history, locals,
                    files, emails, console, sched, runs >>

\* line 206: run_scraper returned to run_pending, which reschedules the job
JobDone ==
    /\ pc = "job_done"
    /\ next_run' = following_run(now)
    /\ pc' = "sleep"
    /\ UNCHANGED << others, entry, exc, site, sessions, frame, history, locals,
                    files, emails, console, registered, now, runs >>

\* line 207: time.sleep(1); the hour may change meanwhile
Sleep ==
    /\ pc = "sleep"
    /\ \E h \in {now, now + 1} : h <= MaxHour /\ now' = h
    /\ pc' = "poll"
    /\ UNCHANGED << others, entry, exc, site, sessions, frame, history, locals,
                    files, emails, console, registered, next_run, runs >>

Next ==
    \/ MainRunOnce \/ MainScheduleOnInstance \/ MainScheduleOnClass
    \/ RunScraperStart
    \/ Construct \/ ConstructFails
    \/ Get \/ GetFails
    \/ ImplicitlyWait \/ ImplicitlyWaitFails
    \/ FindElements \/ FindElementsFails
    \/ ScrapeCard \/ LoopEnds
    \/ QuitDriver \/ Return
    \/ Filter
    \/ ReportSave \/ ReportSaveFails \/ ReportNone
    \/ Schedule \/ RunPendingDue \/ RunPendingIdle \/ JobDone \/ Sleep

Spec == Init /\ [][Next]_vars


(***************************************************************************)
(* filter_jobs as a function: its arguments are drawn from bounded sets    *)
(* and the call is one step.                                               *)
(***************************************************************************)
Listing(title, location, link) == [Title |-> title, Location |-> location, Link |-> link]

Listings ==
    { Listing(<< "S","o","f","t","w","a","r","e"," ","E","n","g","i","n","e","e","r"," ","I","n","t","e","r","n" >>,
              << "M","o","u","n","t","a","i","n"," ","V","i","e","w",","," ","U","S","A" >>,
              "https://careers.google.com/jobs/results/1"),
      Listing(txt_GraphicDesigner,
              << "N","e","w"," ","Y","o","r","k",","," ","U","S","A" >>,
              "https://careers.google.com/jobs/results/2"),
      Listing(<< "B","a","c","k","e","n","d"," ","D","e","v","e","l","o","p","e","r" >>,
              txt_Berlin,
              "https://www.amazon.jobs/en/jobs/1"),
      Listing(<< "S","O","F","T","W","A","R","E"," ","E","N","G","I","N","E","E","R" >>,
              << "A","u","s","t","i","n",","," ","T","X" >>,
              None) }

KeywordLists ==
    { << >>,
      << << "s","o","f","t","w","a","r","e" >> >>,
      << << "D","E","S","I","G","N","E","R" >>, << "d","e","v","e","l","o","p","e","r" >> >>,
      KEYWORDS }

LocationLists ==
    { << >>,
      << << "u","s","a" >> >>,
      << << "G","e","r","m","a","n","y" >> >>,
      LOCATION_KEYWORDS }

InitFilter ==
    /\ entry = RunOnce /\ pc = "filter_jobs" /\ now = TriggerHour /\ files = {}
    /\ PipelineIdle /\ MailIdle
    /\ f_jobs \in SeqsUpTo(Listings, MaxJobs)
    /\ f_keywords \in KeywordLists
    /\ f_locations \in LocationLists
    /\ f_result = << >>

\* lines 110-120, called with (f_jobs, f_keywords, f_locations)
CallFilter ==
    /\ f_result = << >>
    /\ f_result' = << filter_jobs(f_jobs, f_keywords, f_locations) >>
    /\ UNCHANGED << pipelineVars, mailVars, f_jobs, f_keywords, f_locations >>

NextFilter == CallFilter

SpecFilter == InitFilter /\ [][NextFilter]_vars

(***************************************************************************)
(* send_email, called with the name save_to_csv returned.  smtplib: the    *)
(* with statement's __exit__ sends QUIT and closes the connection; quit()  *)
(* on a closed connection raises SMTPServerDisconnected.                   *)
(***************************************************************************)
Dates == [day : {5, 20}, month : {1, 11}, year : {2025, 2026}]

FileExists(name) == \E f \in files : f.name = name

InitMail ==
    /\ entry = RunOnce /\ pc = "send_email" /\ now = TriggerHour
    /\ PipelineIdle /\ FilterIdle
    /\ \E d \in Dates :
          /\ m_file = csv_name(prefix_jobs, d)
          /\ \E rows \in SeqsUpTo(Listings, 1) \ {<< >>} :
                files \in {{}, to_csv({}, m_file, rows)}
    /\ m_pc = "call" /\ m_server = "unbound" /\ m_attempts = 0
    /\ m_exc = "none"

mailRest == << entry, pc, exc, site, driver, opened, quits, job_cards, idx,
               jobs, failed, scraped, google_jobs, amazon_jobs, filtered_jobs,
               filename, files, registered, now, next_run, runs, filterVars,
               m_file >>

\* lines 142-160: the message is composed and the attachment read
Compose ==
    /\ m_pc = "call"
    /\ IF FileExists(m_file)
       THEN m_pc' = "connect" /\ UNCHANGED m_exc
       ELSE m_pc' = "raised" /\ m_exc' = "FileNotFoundError"
    /\ UNCHANGED << mailRest, m_server, m_attempts, emails, console >>

\* line 162: smtplib.SMTP("smtp.gmail.com", 587) connects
Connect ==
    /\ m_pc = "connect"
    /\ m_attempts' = m_attempts + 1
    /\ m_server' = "connected"
    /\ m_pc' = "starttls"
    /\ UNCHANGED << mailRest, m_exc, emails, console >>

\* line 162: the connection cannot be established; `server` is never bound
ConnectFails ==
    /\ m_pc = "connect"
    /\ m_attempts' = m_attempts + 1
    /\ m_exc' = "OSError"
    /\ m_pc' = "except"
    /\ UNCHANGED << mailRest, m_server, emails, console >>

\* line 163
Starttls ==
    /\ m_pc = "starttls"
    /\ m_pc' = "login"
    /\ UNCHANGED << mailRest, m_server, m_attempts, m_exc, emails, console >>

\* an exception inside the with block: __exit__ closes the connection
LeaveWith(e) == m_server' = "closed" /\ m_exc' = e /\ m_pc' = "except"

StarttlsFails ==
    /\ m_pc = "starttls"
    /\ LeaveWith("SMTPException")
    /\ UNCHANGED << mailRest, m_attempts, emails, console >>

\* line 164
Login ==
    /\ m_pc = "login"
    /\ m_pc' = "sendmail"
    /\ UNCHANGED << mailRest, m_server, m_attempts, m_exc, emails, console >>

LoginAuthFails ==
    /\ m_pc = "login"
    /\ LeaveWith("SMTPAuthenticationError")
    /\ UNCHANGED << mailRest, m_attempts, emails, console >>

LoginFails ==
    /\ m_pc = "login"
    /\ LeaveWith("SMTPException")
    /\ UNCHANGED << mailRest, m_attempts, emails, console >>

\* lines 165-166, then the with block ends: __exit__ closes the connection
Sendmail ==
    /\ m_pc = "sendmail"
    /\ emails' = emails + 1
    /\ console' = Append(console, "Email sent to")
    /\ m_server' = "closed"
    /\ m_pc' = "finally"
    /\ UNCHANGED << mailRest, m_attempts, m_exc >>

SendmailFails ==
    /\ m_pc = "sendmail"
    /\ LeaveWith("SMTPException")
    /\ UNCHANGED << mailRest, m_attempts, emails, console >>

\* lines 167-170
Except ==
    /\ m_pc = "except"
    /\ console' = Append(console,
                         IF m_exc = "SMTPAuthenticationError"
                         THEN "Authentication error" ELSE "An error occurred")
    /\ m_exc' = "none"
    /\ m_pc' = "finally"
    /\ UNCHANGED << mailRest, m_server, m_attempts, emails >>

\* server.quit() of line 172
quit_server(server) ==
    CASE server = "unbound" -> "UnboundLocalError"
      [] server = "closed" -> "SMTPServerDisconnected"
      [] OTHER -> "none"

\* lines 171-172
MailFinally ==
    /\ m_pc = "finally"
    /\ m_exc' = quit_server(m_server)
    /\ m_pc' = IF quit_server(m_server) = "none" THEN "returned" ELSE "raised"
    /\ m_server' = IF m_server = "connected" THEN "closed" ELSE m_server
    /\ UNCHANGED << mailRest, m_attempts, emails, console >>

NextMail ==
    \/ Compose
    \/ Connect \/ ConnectFails
    \/ Starttls \/ StarttlsFails
    \/ Login \/ LoginAuthFails \/ LoginFails
    \/ Sendmail \/ SendmailFails
    \/ Except
    \/ MailFinally

SpecMail == InitMail /\ [][NextMail]_vars


(***************************************************************************)
(* Properties                                                              *)
(***************************************************************************)
RunEnded == pc \in {"done", "job_done", "raised"}
Last(q) == q[Len(q)]
Printed(line) == \E i \in 1..Len(console) : console[i] = line
Count(q, v) == Cardinality({i \in 1..Len(q) : q[i] = v})

\* C1: when a run of run_scraper has ended, normally or by an exception,
\* every browser session that was opened has been quit exactly once.
C1_EverySessionQuitOnce ==
    /\ \A s \in Sites : quits[s] <= opened[s]
    /\ RunEnded => \A s \in Sites : quits[s] = opened[s] /\ driver[s] # "open"

\* C2: a site whose extraction failed as a whole (card-collection lookup or
\* page load) is logged, contributes no listing, and the failure does not
\* leave run_scraper: the other site is still scraped and the run reports.
C2_SiteFailureIsolated ==
    \A s \in Sites :
        failed[s] # "none" =>
            /\ pc # "raised"
            /\ Printed(SiteErrorLine(s))
            /\ pc \in {"done", "job_done"} =>
                  /\ scraped[Other(s)]
                  /\ (IF s = "google" THEN google_jobs ELSE amazon_jobs) = << >>

\* the sub-selectors every card of a site must match
Required(s) ==
    IF s = "google" THEN {"h3", "span.r0wTof", "a"}
    ELSE {"h3", "li", "a", "h2.posting-date"}

\* the posting-date texts of the pages that denote a calendar date written
\* as "Month DD, YYYY", with or without the word Posted
DateTexts == {txt_PostedJan18}

\* the card fails extraction: an element is missing or its date is unusable
CardFails(s, card) ==
    \/ \E sel \in Required(s) : sel \notin DOMAIN card
    \/ s = "amazon" /\ card["h2.posting-date"].text \notin DateTexts

GoodCards(s, cards, n) == {i \in 1..n : ~CardFails(s, cards[i])}
Nth(S, k) == CHOOSE i \in S : Cardinality({j \in S : j <= i}) = k

\* C3: with a card collection of n cards of which k fail, the loop visits
\* every card, no exception leaves scrape_jobs, and the result holds exactly
\* the n - k records of the other cards, in card order.
C3_PerCardIsolation ==
    /\ exc # "none" => job_cards = << >>
    /\ (pc \in {"card", "finally", "return"} /\ failed[site] = "none") =>
          LET good == GoodCards(site, job_cards, idx)
          IN  /\ Len(jobs) = idx - Cardinality((1..idx) \ good)
              /\ \A k \in 1..Len(jobs) :
                    /\ Nth(good, k) \in good
                    /\ jobs[k]["Link"] = job_cards[Nth(good, k)]["a"].href
                    /\ jobs[k]["Title"] = strip(job_cards[Nth(good, k)]["h3"].text)
              /\ pc # "card" => idx = Len(job_cards)

\* a failing card (bad date) precedes a good one, and scrape_jobs returns
C3_Witness ==
    /\ pc = "return" /\ site = "amazon" /\ Len(job_cards) >= 2
    /\ "h2.posting-date" \in DOMAIN job_cards[1]
    /\ job_cards[1]["h2.posting-date"].text = txt_Posted3DaysAgo
    /\ ~CardFails("amazon", job_cards[2])
    /\ Len(jobs) = Len(job_cards) - 1

\* the same letter, ignoring case
SameLetter(a, b) ==
    \/ a = b
    \/ \E i \in 1..Len(UpperChars) : {a, b} = {UpperChars[i], LowerChars[i]}

ContainsIgnoringCase(text, keyword) ==
    \E off \in 0..(Len(text) - Len(keyword)) :
        \A j \in 1..Len(keyword) : SameLetter(text[off + j], keyword[j])

Matches(job, keywords, location_keywords) ==
    /\ \E k \in 1..Len(keywords) : ContainsIgnoringCase(job.Title, keywords[k])
    /\ \E k \in 1..Len(location_keywords) :
          ContainsIgnoringCase(job.Location, location_keywords[k])

Keep(job) == Matches(job, f_keywords, f_locations)

\* C4: filter_jobs returns exactly the listings whose Title contains, ignoring
\* case, some title keyword and whose Location contains, ignoring case, some
\* location keyword; nothing when the listings or either keyword list is empty.
C4_FilterExact ==
    f_result # << >> =>
        /\ ~f_result[1].raised
        /\ f_result[1].value = SelectSeq(f_jobs, Keep)
        /\ (f_jobs = << >> \/ f_keywords = << >> \/ f_locations = << >>)
              => f_result[1].value = << >>

\* an upper-case title is kept for lower-case keywords, another listing dropped
C4_Witness ==
    /\ f_result # << >>
    /\ f_keywords = << << "s","o","f","t","w","a","r","e" >> >>
    /\ f_locations = LOCATION_KEYWORDS
    /\ \E i \in 1..Len(f_jobs) :
          /\ f_jobs[i].Title = << "S","O","F","T","W","A","R","E"," ","E","N","G","I","N","E","E","R" >>
          /\ \E k \in 1..Len(f_result[1].value) : f_result[1].value[k] = f_jobs[i]
    /\ Len(f_result[1].value) < Len(f_jobs)

RECURSIVE IsSubsequence(_, _)
IsSubsequence(a, b) ==
    IF a = << >> THEN TRUE
    ELSE IF b = << >> THEN FALSE
    ELSE IF Head(a) = Head(b) THEN IsSubsequence(Tail(a), Tail(b))
    ELSE IsSubsequence(a, Tail(b))

\* C5: the output of filter_jobs is a subsequence of its input (relative
\* order kept), and a listing that is kept is kept as many times as it
\* occurs in the input (no deduplication).
C5_FilterStable ==
    f_result # << >> =>
        LET out == f_result[1].value
        IN  /\ IsSubsequence(out, f_jobs)
            /\ \A i \in 1..Len(out) : Count(out, out[i]) = Count(f_jobs, out[i])

\* two equal listings around a different one; both are kept, the other dropped
C5_Witness ==
    /\ f_result # << >>
    /\ Len(f_jobs) = 3 /\ f_jobs[1] = f_jobs[3] /\ f_jobs[1] # f_jobs[2]
    /\ f_result[1].value = << f_jobs[1], f_jobs[3] >>

\* C6: a run whose filtered set is empty writes no file, sends no
\* notification and prints "No matching jobs found."; a file is written only
\* by a run whose filtered set is not empty.
C6_EmptyRunWritesNothing ==
    /\ (pc \in {"done", "job_done"} /\ filtered_jobs = << >>) =>
          /\ filename = << >>
          /\ runs = 1 => files = {}
          /\ emails = 0
          /\ Last(console) = "No matching jobs found."
    /\ filename # << >> =>
          /\ filtered_jobs # << >>
          /\ \E f \in files : f.name = filename[1] /\ f.rows = filtered_jobs
    /\ runs <= 1 /\ files # {} => filename # << >>

\* listings were extracted, none matches
C6_Witness ==
    /\ pc = "done" /\ filtered_jobs = << >>
    /\ google_jobs # << >> /\ amazon_jobs # << >>
    /\ files = {}

\* C7: send_email for a written file attempts the submission at most once,
\* logs a failure, and returns normally whether the submission fails or not.
C7_MailNeverRaises ==
    FileExists(m_file) =>
        /\ m_attempts <= 1
        /\ m_pc # "raised"
        /\ (m_pc = "returned" /\ emails = 0) =>
              (Printed("Authentication error") \/ Printed("An error occurred"))

\* C8: started as line 214 starts it, the scheduler registers run_scraper
\* for 09:00 and its polling loop never exits.
C8_SchedulerRuns ==
    (entry = ScheduleOnInstance /\ pc # "main") =>
        /\ registered
        /\ next_run % HoursPerDay = TriggerHour
        /\ pc \notin {"raised", "done"}

\* C9: a site's browser session is open only while that site's scrape_jobs
\* call is active, so the two sessions are never open together.
C9_SessionScopedToCall ==
    /\ \A s \in Sites : driver[s] = "open" => site = s
    /\ ~(driver["google"] = "open" /\ driver["amazon"] = "open")

GoogleKeys == {"Title", "Location", "Link"}
AmazonKeys == {"Title", "Location", "Link", "Date Posted"}
Complete(q, keys) == \A i \in 1..Len(q) : DOMAIN q[i] = keys

\* C10: every record of a result list is complete at every point of the
\* extraction (Google: Title, Location, Link; Amazon: also Date Posted), and
\* filter_jobs never fails with KeyError on the extracted records.
C10_RecordsComplete ==
    /\ site # "none" =>
          Complete(jobs, IF site = "google" THEN GoogleKeys ELSE AmazonKeys)
    /\ Complete(google_jobs, GoogleKeys)
    /\ Complete(amazon_jobs, AmazonKeys)
    /\ exc # "KeyError"

\* both sites had failing and succeeding cards, and filter_jobs has returned
C10_Witness ==
    /\ pc = "report"
    /\ google_jobs # << >> /\ amazon_jobs # << >>
    /\ Printed(CardErrorLine("google")) /\ Printed(CardErrorLine("amazon"))

====
